---- MODULE Spec2Model ----
(***************************************************************************)
(* Model of the WSL project browser: the editor catalog and detector       *)
(* (utils/editors.ts), the project scanner fetchProjects and the launcher  *)
(* openProject (src/open-project.tsx).                                     *)
(*                                                                         *)
(* A JavaScript string is modelled as a sequence of symbols.  A symbol is  *)
(* a TLA+ string standing for one character ("/", " ", "\n") or for an     *)
(* indivisible word ("proj1", "code"); whitespace and the characters the   *)
(* program inspects are always symbols of their own.  So "~/proj1" is      *)
(* <<"~", "/", "proj1">>, and split, trim, includes and toLowerCase are    *)
(* computed on these sequences the way the program computes them.          *)
(***************************************************************************)
EXTENDS Integers, Sequences, FiniteSets, TLC

VARIABLES
    \* ---- getConfiguredEditors (one call in flight) ----
    gcePc,            \* position in getConfiguredEditors
    gceDistro,        \* its argument
    detectedEditors,  \* the local array detectedEditors
    whereProbe,       \* what the where.exe probe did: [threw, found]
    typeProbe,        \* what the `type` probe did: [threw, found]
    gceResult,        \* the returned list
    \* ---- Command component state (useState) ----
    projects,         \* useState<Project[]>
    isLoading,        \* useState(true)
    availableEditors, \* useState<Editor[]>
    selectedEditorId, \* useState<string | null>
    \* ---- fetchProjects runs ----
    runs,             \* per run slot: position and locals of one fetchProjects call
    started,          \* number of fetchProjects calls made so far
    lastDone,         \* history: what the fetchProjects run that returned last did
    \* ---- openProject (one call in flight) ----
    opPc,             \* position in openProject
    opProject,        \* its argument
    opEditor,         \* the local `editor` (or NoEditor)
    targetPath,       \* the local targetPath
    opLog,            \* calls made by this openProject invocation, in order
    opened            \* number of openProject calls made so far

vars == <<gcePc, gceDistro, detectedEditors, whereProbe, typeProbe, gceResult,
          projects, isLoading, availableEditors, selectedEditorId,
          runs, started, lastDone,
          opPc, opProject, opEditor, targetPath, opLog, opened>>

gceVars == <<gcePc, gceDistro, detectedEditors, whereProbe, typeProbe, gceResult>>
uiVars == <<projects, isLoading, availableEditors, selectedEditorId>>
fetchVars == <<runs, started, lastDone>>
openVars == <<opPc, opProject, opEditor, targetPath, opLog, opened>>

(***************************************************************************)
(* Strings                                                                 *)
(***************************************************************************)

\* Concatenation of a sequence of strings.
RECURSIVE Concat(_)
Concat(ss) == IF ss = <<>> THEN <<>> ELSE Head(ss) \o Concat(Tail(ss))

\* String.prototype.includes
Includes(s, sub) ==
    \E i \in 0..(Len(s) - Len(sub)) : SubSeq(s, i + 1, i + Len(sub)) = sub

\* The upper-case symbols the modelled outputs can hold, with their lower case.
LowerOf(c) ==
    CASE c = "C:" -> "c:"
      [] c = "VS" -> "vs"
      [] c = "Code" -> "code"
      [] c = "Cursor" -> "cursor"
      [] c = "Antigravity" -> "antigravity"
      [] c = "Notepad" -> "notepad"
      [] c = "Windows" -> "windows"
      [] c = "System32" -> "system32"
      [] OTHER -> c

\* String.prototype.toLowerCase
ToLowerCase(s) == [i \in 1..Len(s) |-> LowerOf(s[i])]

WhiteSpace == {" ", "\n", "\r", "\t"}

RECURSIVE TrimStart(_)
TrimStart(s) ==
    IF s # <<>> /\ Head(s) \in WhiteSpace THEN TrimStart(Tail(s)) ELSE s

RECURSIVE TrimEnd(_)
TrimEnd(s) ==
    IF s # <<>> /\ s[Len(s)] \in WhiteSpace
    THEN TrimEnd(SubSeq(s, 1, Len(s) - 1)) ELSE s

\* String.prototype.trim
Trim(s) == TrimEnd(TrimStart(s))

\* String.prototype.split(sep) for a one-symbol separator: the pieces between
\* the separators, empty pieces included.
RECURSIVE SplitFrom(_, _, _)
SplitFrom(s, sep, cur) ==
    IF s = <<>> THEN <<cur>>
    ELSE IF Head(s) = sep THEN <<cur>> \o SplitFrom(Tail(s), sep, <<>>)
    ELSE SplitFrom(Tail(s), sep, Append(cur, Head(s)))

Split(s, sep) == SplitFrom(s, sep, <<>>)

Range(xs) == {xs[i] : i \in 1..Len(xs)}

(***************************************************************************)
(* Editor catalog (utils/editors.ts)                                       *)
(***************************************************************************)

EditorEntry(id, name, term, win, useTerm) ==
    [id |-> id, name |-> name, isTerminal |-> term,
     needsWindowsPath |-> win, useTerminal |-> useTerm]

\* The static catalog; an absent needsWindowsPath / useTerminal is FALSE
\* (undefined is falsy where the launcher tests them).
COMMON_EDITORS ==
    << EditorEntry("vscode", "VS Code", FALSE, FALSE, FALSE),
       EditorEntry("antigravity", "Antigravity", FALSE, FALSE, FALSE),
       EditorEntry("cursor", "Cursor", FALSE, FALSE, FALSE),
       EditorEntry("notepad", "Notepad", FALSE, TRUE, FALSE),
       EditorEntry("notepadplusplus", "Notepad++", FALSE, TRUE, FALSE),
       EditorEntry("vim", "Vim", TRUE, FALSE, TRUE),
       EditorEntry("nano", "Nano", TRUE, FALSE, TRUE),
       EditorEntry("micro", "Micro", TRUE, FALSE, TRUE) >>

EditorIds == {COMMON_EDITORS[i].id : i \in 1..Len(COMMON_EDITORS)}

\* COMMON_EDITORS.find((e) => e.id === id)!
FindEditor(id) ==
    COMMON_EDITORS[CHOOSE i \in 1..Len(COMMON_EDITORS) :
        /\ COMMON_EDITORS[i].id = id
        /\ \A j \in 1..(i - 1) : COMMON_EDITORS[j].id # id]

\* editor.getCommand(distro, path): the program and its argument list.
\* `wsl+${distro}` is the template string: "wsl+" followed by distro.
GetCommand(editor, distro, path) ==
    CASE editor.id = "vscode" ->
            [command |-> <<"code">>,
             args |-> << <<"--remote">>, <<"wsl+">> \o distro, path >>]
      [] editor.id = "antigravity" ->
            [command |-> <<"antigravity">>, args |-> << path >>]
      [] editor.id = "cursor" ->
            [command |-> <<"cursor">>,
             args |-> << <<"--remote">>, <<"wsl+">> \o distro, path >>]
      [] editor.id = "notepad" ->
            [command |-> <<"notepad.exe">>, args |-> << path >>]
      [] editor.id = "notepadplusplus" ->
            [command |-> <<"C:\\Program Files\\Notepad++\\notepad++.exe">>,
             args |-> << path >>]
      [] editor.id = "vim" ->
            [command |-> <<"wsl">>, args |-> << <<"-d">>, distro, <<"vim">>, path >>]
      [] editor.id = "nano" ->
            [command |-> <<"wsl">>, args |-> << <<"-d">>, distro, <<"nano">>, path >>]
      [] editor.id = "micro" ->
            [command |-> <<"wsl">>, args |-> << <<"-d">>, distro, <<"micro">>, path >>]

(***************************************************************************)
(* The machine the program runs on                                         *)
(***************************************************************************)

\* Names of the WSL distributions of the machine.
DistroNames == { <<"Ubuntu">>, <<"Debian">> }

\* The binaries where.exe is asked for, in argument order.
WhereArgs == << "code", "cursor", "antigravity", "notepad" >>

\* The binaries `type` is asked for, in argument order.
TypeArgs == << "vim", "nano", "micro" >>

\* The line where.exe prints for a binary it finds: its full path.  Windows
\* file names keep the case they have on disk, which `diskCase` selects.
WhereLine(bin, diskCase) ==
    LET file == IF ~diskCase THEN bin
                ELSE CASE bin = "code" -> "Code"
                       [] bin = "cursor" -> "Cursor"
                       [] bin = "antigravity" -> "Antigravity"
                       [] bin = "notepad" -> "Notepad"
        dir == CASE bin = "code" -> <<"VS", " ", "Code">>
                 [] bin = "cursor" -> <<"Cursor">>
                 [] bin = "antigravity" -> <<"Antigravity">>
                 [] bin = "notepad" -> <<"Windows", "\\", "System32">>
    IN  <<"C:", "\\">> \o dir \o <<"\\", file, ".exe", "\r", "\n">>

\* stdout of `where.exe code cursor antigravity notepad` when exactly the
\* binaries of `installed` are on the PATH.
WhereStdout(installed, diskCase) ==
    Concat([i \in 1..Len(WhereArgs) |->
              IF WhereArgs[i] \in installed
              THEN WhereLine(WhereArgs[i], diskCase) ELSE <<>>])

\* stdout of `bash -c "type vim nano micro"` when exactly the binaries of
\* `installed` exist in the distro.
TypeStdout(installed) ==
    Concat([i \in 1..Len(TypeArgs) |->
              IF TypeArgs[i] \in installed
              THEN <<TypeArgs[i], " ", "is", " ", "/usr/bin/", TypeArgs[i], "\n">>
              ELSE <<>>])

(***************************************************************************)
(* getConfiguredEditors(distro)                                            *)
(***************************************************************************)

Null == "null"

NoProbe == [threw |-> FALSE, found |-> {}, ran |-> FALSE]

\* PushWindows without the toLowerCase of stdout.
PushWindowsMutant(detected, stdout) ==
    LET found == stdout
        d1 == IF Includes(found, <<"code">>)
              THEN Append(detected, FindEditor("vscode")) ELSE detected
        d2 == IF Includes(found, <<"cursor">>)
              THEN Append(d1, FindEditor("cursor")) ELSE d1
        d3 == IF Includes(found, <<"antigravity">>)
              THEN Append(d2, FindEditor("antigravity")) ELSE d2
    IN  IF Includes(found, <<"notepad">>)
        THEN Append(d3, FindEditor("notepad")) ELSE d3

\* The four `if (found.includes(..)) detectedEditors.push(..)` statements
\* after the where.exe probe, in their order in the code.
PushWindows(detected, stdout) ==
    LET found == ToLowerCase(stdout)
        d1 == IF Includes(found, <<"code">>)
              THEN Append(detected, FindEditor("vscode")) ELSE detected
        d2 == IF Includes(found, <<"cursor">>)
              THEN Append(d1, FindEditor("cursor")) ELSE d1
        d3 == IF Includes(found, <<"antigravity">>)
              THEN Append(d2, FindEditor("antigravity")) ELSE d2
    IN  IF Includes(found, <<"notepad">>)
        THEN Append(d3, FindEditor("notepad")) ELSE d3

\* PushWsl pushing in the reverse order.
PushWslMutant(detected, stdout) ==
    LET foundWsl == ToLowerCase(stdout)
        d1 == IF Includes(foundWsl, <<"micro", " ", "is">>)
              THEN Append(detected, FindEditor("micro")) ELSE detected
        d2 == IF Includes(foundWsl, <<"nano", " ", "is">>)
              THEN Append(d1, FindEditor("nano")) ELSE d1
    IN  IF Includes(foundWsl, <<"vim", " ", "is">>)
        THEN Append(d2, FindEditor("vim")) ELSE d2

\* The three pushes after the `type` probe.
PushWsl(detected, stdout) ==
    LET foundWsl == ToLowerCase(stdout)
        d1 == IF Includes(foundWsl, <<"vim", " ", "is">>)
              THEN Append(detected, FindEditor("vim")) ELSE detected
        d2 == IF Includes(foundWsl, <<"nano", " ", "is">>)
              THEN Append(d1, FindEditor("nano")) ELSE d1
    IN  IF Includes(foundWsl, <<"micro", " ", "is">>)
        THEN Append(d2, FindEditor("micro")) ELSE d2

\* [COMMON_EDITORS[0], COMMON_EDITORS[3]]
SafeDefaults == << COMMON_EDITORS[1], COMMON_EDITORS[4] >>

\* Fallback with the two defaults swapped.
FallbackMutant(detected) ==
    IF Len(detected) = 0 THEN << COMMON_EDITORS[4], COMMON_EDITORS[1] >> ELSE detected

\* The final `if (detectedEditors.length === 0) return` of the defaults.
Fallback(detected) ==
    IF Len(detected) = 0 THEN SafeDefaults ELSE detected

\* getConfiguredEditors is called.
GceCall(distro) ==
    /\ gcePc \in {"idle", "returned"}
    /\ gcePc' = "where"
    /\ gceDistro' = distro
    /\ detectedEditors' = <<>>
    /\ whereProbe' = NoProbe
    /\ typeProbe' = NoProbe
    /\ gceResult' = <<>>
    /\ UNCHANGED <<uiVars, fetchVars, openVars>>

\* where.exe exits normally, having found the binaries of `installed`.
GceWhereOk(installed, diskCase) ==
    /\ gcePc = "where"
    /\ detectedEditors' = PushWindows(detectedEditors, WhereStdout(installed, diskCase))
    /\ whereProbe' = [threw |-> FALSE, found |-> installed, ran |-> TRUE]
    /\ gcePc' = "type"
    /\ UNCHANGED <<gceDistro, typeProbe, gceResult, uiVars, fetchVars, openVars>>

\* where.exe fails: the catch block swallows the error.
GceWhereThrow ==
    /\ gcePc = "where"
    /\ whereProbe' = [threw |-> TRUE, found |-> {}, ran |-> TRUE]
    /\ gcePc' = "type"
    /\ UNCHANGED <<gceDistro, detectedEditors, typeProbe, gceResult,
                   uiVars, fetchVars, openVars>>

\* `type vim nano micro` exits normally in the distro.
GceTypeOk(installed) ==
    /\ gcePc = "type"
    /\ detectedEditors' = PushWsl(detectedEditors, TypeStdout(installed))
    /\ typeProbe' = [threw |-> FALSE, found |-> installed, ran |-> TRUE]
    /\ gcePc' = "check"
    /\ UNCHANGED <<gceDistro, whereProbe, gceResult, uiVars, fetchVars, openVars>>

\* The `type` probe fails: swallowed.
GceTypeThrow ==
    /\ gcePc = "type"
    /\ typeProbe' = [threw |-> TRUE, found |-> {}, ran |-> TRUE]
    /\ gcePc' = "check"
    /\ UNCHANGED <<gceDistro, detectedEditors, whereProbe, gceResult,
                   uiVars, fetchVars, openVars>>

\* The fallback test and the return.
GceReturn ==
    /\ gcePc = "check"
    /\ gceResult' = Fallback(detectedEditors)
    /\ gcePc' = "returned"
    /\ UNCHANGED <<gceDistro, detectedEditors, whereProbe, typeProbe,
                   uiVars, fetchVars, openVars>>

GceNext ==
    \/ \E distro \in DistroNames : GceCall(distro)
    \/ \E installed \in SUBSET Range(WhereArgs), diskCase \in BOOLEAN :
            GceWhereOk(installed, diskCase)
    \/ GceWhereThrow
    \/ \E installed \in SUBSET Range(TypeArgs) : GceTypeOk(installed)
    \/ GceTypeThrow
    \/ GceReturn

(***************************************************************************)
(* fetchProjects                                                           *)
(***************************************************************************)

\* const projectRoot = "~"
projectRoot == <<"~">>

\* The form `find` prints the root line in: as given, or expanded by the
\* shell of the distro to the home directory.
RootForms == { <<"~">>, <<"/", "home", "/", "u">> }

\* Directory contents of the root in a distro, in directory order.
DirListings == { <<>>, << <<"proj1">>, <<".", "hidden">>, <<"proj2">> >> }

IsHidden(name) == name # <<>> /\ Head(name) = "."

\* stdout of `find <root> -maxdepth 1 -type d -not -path '*/.*'`: the root
\* line, then one line per subdirectory that is not hidden.
FindStdout(root, children) ==
    root \o <<"\n">> \o
    Concat([i \in 1..Len(children) |->
              IF IsHidden(children[i]) THEN <<>>
              ELSE root \o <<"/">> \o children[i] \o <<"\n">>])

\* stdout of `wsl --list --verbose` as rows of cells <<mark, name, state,
\* version>> under a header row; `table` gives the state of each distro the
\* machine lists.
WslStates == {"Running", "Stopped"}

DistroOrder == << <<"Ubuntu">>, <<"Debian">> >>

WslTables == [DistroNames -> WslStates \cup {"absent"}]

WslStdout(table) ==
    << <<"", "NAME", "STATE", "VERSION">> >> \o
    Concat([i \in 1..Len(DistroOrder) |->
              IF table[DistroOrder[i]] = "absent" THEN <<>>
              ELSE << <<IF i = 1 THEN "*" ELSE "", DistroOrder[i],
                        table[DistroOrder[i]], "2">> >>])

\* parseDistros(stdout): the rows under the header as {name, state} records.
ParseDistros(stdout) ==
    [i \in 1..(Len(stdout) - 1) |->
        [name |-> stdout[i + 1][2], state |-> stdout[i + 1][3]]]

IsRunning(d) == d.state = "Running"

\* parseDistros(wslOutput).filter((d) => d.state === "Running")
RunningDistros(stdout) == SelectSeq(ParseDistros(stdout), IsRunning)

NonBlank(line) == Trim(line) # <<>>

\* The body of lines.forEach for one line: the Project it pushes, if any.
LineProjects(path, distroName) ==
    IF path # projectRoot /\ Trim(path) # <<>>
    THEN LET parts == Split(path, "/")
             name == IF parts[Len(parts)] # <<>> THEN parts[Len(parts)] ELSE path
         IN  << [name |-> name, path |-> Trim(path), distro |-> distroName] >>
    ELSE <<>>

\* What one distro's scan pushes to results, from the stdout of find.
ScanProjects(stdout, distroName) ==
    LET lines == SelectSeq(Split(stdout, "\n"), NonBlank)
    IN  Concat([i \in 1..Len(lines) |-> LineProjects(lines[i], distroName)])

RunSlots == {1, 2}

MaxRuns == 3

IdleRun == [pc |-> "idle", distros |-> <<>>, scans |-> <<>>, results |-> <<>>]

Pending == [state |-> "pending", root |-> <<>>, children |-> <<>>]

NoRun ==
    [outcome |-> "none", distros |-> <<>>, scans |-> <<>>, results |-> <<>>,
     published |-> 0, toasts |-> <<>>]

\* The record of a run that returns.
Done(run, outcome, published, toasts) ==
    [outcome |-> outcome, distros |-> run.distros, scans |-> run.scans,
     results |-> run.results, published |-> published, toasts |-> toasts]

FreeSlot == CHOOSE r \in RunSlots : runs[r].pc = "idle" /\
                \A q \in RunSlots : runs[q].pc = "idle" => r <= q

\* The 'Refresh List' action of a list item calls fetchProjects; it exists
\* only while a project is displayed.
RefreshList ==
    /\ projects # <<>>
    /\ started < MaxRuns
    /\ \E r \in RunSlots : runs[r].pc = "idle"
    /\ runs' = [runs EXCEPT ![FreeSlot] = [IdleRun EXCEPT !.pc = "listing"]]
    /\ started' = started + 1
    /\ UNCHANGED <<lastDone, uiVars, gceVars, openVars>>

\* `wsl --list --verbose` (or parseDistros) throws: the outer catch.
ListThrows(r) ==
    /\ runs[r].pc = "listing"
    /\ isLoading' = FALSE
    /\ lastDone' = Done(runs[r], "listThrew", 0, << "Failed to load projects" >>)
    /\ runs' = [runs EXCEPT ![r] = IdleRun]
    /\ UNCHANGED <<started, projects, availableEditors, selectedEditorId,
                   gceVars, openVars>>

\* The listing reports no running distro: setIsLoading(false); return.
ListReturnsNone(r, table) ==
    /\ runs[r].pc = "listing"
    /\ Len(RunningDistros(WslStdout(table))) = 0
    /\ isLoading' = FALSE
    /\ lastDone' = Done(runs[r], "noDistros", 0, <<>>)
    /\ runs' = [runs EXCEPT ![r] = IdleRun]
    /\ UNCHANGED <<started, projects, availableEditors, selectedEditorId,
                   gceVars, openVars>>

\* The listing reports running distros: Promise.all starts one scan for each.
ListReturnsSome(r, table) ==
    LET distros == RunningDistros(WslStdout(table))
    IN  /\ runs[r].pc = "listing"
        /\ Len(distros) # 0
        /\ runs' = [runs EXCEPT ![r] =
                      [pc |-> "scanning", distros |-> distros,
                       scans |-> [i \in 1..Len(distros) |-> Pending],
                       results |-> <<>>]]
        /\ UNCHANGED <<started, lastDone, uiVars, gceVars, openVars>>

\* The find of distro i of run r returns: its lines are pushed to results.
ScanOk(r, i, root, children) ==
    /\ runs[r].pc = "scanning"
    /\ i \in 1..Len(runs[r].distros)
    /\ runs[r].scans[i].state = "pending"
    /\ runs' = [runs EXCEPT
                  ![r].scans[i] = [state |-> "ok", root |-> root, children |-> children],
                  ![r].results = @ \o ScanProjects(FindStdout(root, children),
                                                   runs[r].distros[i].name)]
    /\ UNCHANGED <<started, lastDone, uiVars, gceVars, openVars>>

\* ScanThrows without the inner catch: the error reaches the outer catch.
ScanThrowsMutant(r, i) ==
    /\ runs[r].pc = "scanning"
    /\ i \in 1..Len(runs[r].distros)
    /\ runs[r].scans[i].state = "pending"
    /\ isLoading' = FALSE
    /\ lastDone' = Done([runs[r] EXCEPT !.scans[i].state = "threw"], "scanThrew", 0,
                        << "Failed to load projects" >>)
    /\ runs' = [runs EXCEPT ![r] = IdleRun]
    /\ UNCHANGED <<started, projects, availableEditors, selectedEditorId,
                   gceVars, openVars>>

\* The find of distro i of run r throws: the inner catch logs it.
ScanThrows(r, i) ==
    /\ runs[r].pc = "scanning"
    /\ i \in 1..Len(runs[r].distros)
    /\ runs[r].scans[i].state = "pending"
    /\ runs' = [runs EXCEPT ![r].scans[i].state = "threw"]
    /\ UNCHANGED <<started, lastDone, uiVars, gceVars, openVars>>

AllSettled(run) == \A i \in 1..Len(run.scans) : run.scans[i].state # "pending"

\* Promise.all resolves: setProjects(results); setIsLoading(false).
Publish(r) ==
    /\ runs[r].pc = "scanning"
    /\ AllSettled(runs[r])
    /\ projects' = runs[r].results
    /\ isLoading' = FALSE
    /\ lastDone' = Done(runs[r], "published", 1, <<>>)
    /\ runs' = [runs EXCEPT ![r] = IdleRun]
    /\ UNCHANGED <<started, availableEditors, selectedEditorId, gceVars, openVars>>

MaxDistros == Cardinality(DistroNames)

FetchNext ==
    \/ RefreshList
    \/ \E r \in RunSlots : ListThrows(r)
    \/ \E r \in RunSlots, table \in WslTables : ListReturnsNone(r, table)
    \/ \E r \in RunSlots, table \in WslTables : ListReturnsSome(r, table)
    \/ \E r \in RunSlots, i \in 1..MaxDistros, root \in RootForms,
          children \in DirListings : ScanOk(r, i, root, children)
    \/ \E r \in RunSlots, i \in 1..MaxDistros : ScanThrows(r, i)
    \/ \E r \in RunSlots : Publish(r)

(***************************************************************************)
(* loadEditorPreference, setEditor and openProject                         *)
(***************************************************************************)

\* Sets of installed binaries the launcher is explored with.
InstalledWindows ==
    { {}, {"notepad"}, {"code", "notepad"}, {"code", "cursor", "antigravity", "notepad"} }

InstalledWsl == { {}, {"nano"}, {"vim", "nano", "micro"} }

\* The lists getConfiguredEditors returns on those machines, each probe
\* throwing or not.
GceResults ==
    LET afterWhere ==
            {<<>>} \cup {PushWindows(<<>>, WhereStdout(w, c)) :
                            w \in InstalledWindows, c \in BOOLEAN}
        afterType ==
            afterWhere \cup {PushWsl(d, TypeStdout(t)) :
                                d \in afterWhere, t \in InstalledWsl}
    IN  {Fallback(d) : d \in afterType}

\* What LocalStorage can hold under "selectedEditorId": nothing, or an id
\* a former session stored.
StoredIds == {Null, "notepad", "notepadplusplus", "vim"}

\* loadEditorPreference reaches its end: setAvailableEditors(editors), then
\* the stored id, or else the first editor's id, becomes the selection.
LoadEditorPreference(storedId, editors) ==
    /\ availableEditors = <<>>
    /\ availableEditors' = editors
    /\ selectedEditorId' =
          IF storedId # Null THEN storedId
          ELSE IF Len(editors) > 0 THEN editors[1].id
          ELSE selectedEditorId
    /\ UNCHANGED <<projects, isLoading, gceVars, fetchVars, openVars>>

\* The dropdown's onChange: setEditor(editorId) for an item of the dropdown.
SetEditor(editorId) ==
    /\ \E i \in 1..Len(availableEditors) : availableEditors[i].id = editorId
    /\ selectedEditorId # editorId
    /\ selectedEditorId' = editorId
    /\ UNCHANGED <<projects, isLoading, availableEditors, gceVars, fetchVars, openVars>>

MaxOpens == 2

NoEditor == [id |-> Null, name |-> "", isTerminal |-> FALSE,
             needsWindowsPath |-> FALSE, useTerminal |-> FALSE]

\* availableEditors.find((e) => e.id === selectedEditorId)
SelectedEditor ==
    IF \E i \in 1..Len(availableEditors) : availableEditors[i].id = selectedEditorId
    THEN availableEditors[CHOOSE i \in 1..Len(availableEditors) :
            /\ availableEditors[i].id = selectedEditorId
            /\ \A j \in 1..(i - 1) : availableEditors[j].id # selectedEditorId]
    ELSE NoEditor

\* Entries of opLog: the calls openProject makes and what they return.
ExecCall(purpose, file, args) ==
    [op |-> "execFile", purpose |-> purpose, file |-> file, args |-> args]

ExecResult(purpose, ok, value) ==
    [op |-> "result", purpose |-> purpose, ok |-> ok, value |-> value]

GetCommandCall(editorId, distro, path) ==
    [op |-> "getCommand", editor |-> editorId, distro |-> distro, path |-> path]

ToastCall(style, title, message) ==
    [op |-> "showToast", style |-> style, title |-> title, message |-> message]

\* Errors a failed subprocess call rejects with.
ErrorValues == { <<"Error: Command failed">>, <<"Error: spawn ENOENT">> }

\* Line endings a subprocess may end its output with.
LineEnds == { <<"\n">>, <<"\r", "\n">> }

\* stdout of `wslpath -w <path>` in a distro: the UNC form of the path.
WslpathStdout(distro, path, lineEnd) ==
    <<"\\\\wsl.localhost\\">> \o distro \o
    [i \in 1..Len(path) |-> IF path[i] = "/" THEN "\\" ELSE path[i]] \o lineEnd

\* LaunchCalls handing cmd.exe one joined command string.
LaunchCallsMutant(editor, distro, path) ==
    LET cmd == GetCommand(editor, distro, path)
    IN  << GetCommandCall(editor.id, distro, path),
           IF editor.useTerminal
           THEN ExecCall("launch", <<"cmd.exe">>,
                         << <<"/c">>,
                            <<"start", " ">> \o cmd.command \o
                            Concat([i \in 1..Len(cmd.args) |-> <<" ">> \o cmd.args[i]]) >>)
           ELSE ExecCall("launch", cmd.command, cmd.args) >>

\* Lines 134-149: getCommand, then the launch call, wrapped for a terminal.
LaunchCalls(editor, distro, path) ==
    LET cmd == GetCommand(editor, distro, path)
    IN  << GetCommandCall(editor.id, distro, path),
           IF editor.useTerminal
           THEN ExecCall("launch", <<"cmd.exe">>,
                         << <<"/c">>, <<"start">>, cmd.command >> \o cmd.args)
           ELSE ExecCall("launch", cmd.command, cmd.args) >>

OpenGuard(project) ==
    /\ opPc \in {"idle", "done"}
    /\ opened < MaxOpens
    /\ \E i \in 1..Len(projects) : projects[i] = project

\* openProject with no editor found: the failure toast, and return.
OpenNoEditor(project) ==
    /\ OpenGuard(project)
    /\ SelectedEditor = NoEditor
    /\ opProject' = project
    /\ opEditor' = NoEditor
    /\ targetPath' = <<>>
    /\ opLog' = << ToastCall("Failure", <<"No editor selected">>, <<>>) >>
    /\ opPc' = "done"
    /\ opened' = opened + 1
    /\ UNCHANGED <<uiVars, gceVars, fetchVars>>

\* openProject, editor.needsWindowsPath: wslpath -w is started and awaited.
OpenTranslate(project) ==
    /\ OpenGuard(project)
    /\ SelectedEditor # NoEditor
    /\ SelectedEditor.needsWindowsPath
    /\ opProject' = project
    /\ opEditor' = SelectedEditor
    /\ targetPath' = project.path
    /\ opLog' = << ExecCall("translate", <<"wsl">>,
                     << <<"-d">>, project.distro, <<"wslpath">>, <<"-w">>,
                        project.path >>) >>
    /\ opPc' = "translating"
    /\ opened' = opened + 1
    /\ UNCHANGED <<uiVars, gceVars, fetchVars>>

\* openProject, no translation: getCommand and the launch call.
OpenDirect(project) ==
    /\ OpenGuard(project)
    /\ SelectedEditor # NoEditor
    /\ ~SelectedEditor.needsWindowsPath
    /\ opProject' = project
    /\ opEditor' = SelectedEditor
    /\ targetPath' = project.path
    /\ opLog' = LaunchCalls(SelectedEditor, project.distro, project.path)
    /\ opPc' = "launching"
    /\ opened' = opened + 1
    /\ UNCHANGED <<uiVars, gceVars, fetchVars>>

\* TranslateOk without the trim of stdout.
TranslateOkMutant(lineEnd) ==
    LET stdout == WslpathStdout(opProject.distro, opProject.path, lineEnd)
    IN  /\ opPc = "translating"
        /\ targetPath' = stdout
        /\ opLog' = Append(opLog, ExecResult("translate", TRUE, stdout)) \o
                    LaunchCalls(opEditor, opProject.distro, stdout)
        /\ opPc' = "launching"
        /\ UNCHANGED <<opProject, opEditor, opened, uiVars, gceVars, fetchVars>>

\* wslpath returns: targetPath = stdout.trim(), getCommand, the launch call.
TranslateOk(lineEnd) ==
    LET stdout == WslpathStdout(opProject.distro, opProject.path, lineEnd)
    IN  /\ opPc = "translating"
        /\ targetPath' = Trim(stdout)
        /\ opLog' = Append(opLog, ExecResult("translate", TRUE, stdout)) \o
                    LaunchCalls(opEditor, opProject.distro, Trim(stdout))
        /\ opPc' = "launching"
        /\ UNCHANGED <<opProject, opEditor, opened, uiVars, gceVars, fetchVars>>

\* wslpath throws: the catch block's failure toast.
TranslateThrows(error) ==
    /\ opPc = "translating"
    /\ opLog' = opLog \o
          << ExecResult("translate", FALSE, error),
             ToastCall("Failure", <<"Failed to open project">>, error) >>
    /\ opPc' = "done"
    /\ UNCHANGED <<opProject, opEditor, targetPath, opened, uiVars, gceVars, fetchVars>>

\* The launch call returns: the success toast.
LaunchOk ==
    /\ opPc = "launching"
    /\ opLog' = opLog \o
          << ExecResult("launch", TRUE, <<>>),
             ToastCall("Success", <<"Opening in ", opEditor.name>>, <<>>) >>
    /\ opPc' = "done"
    /\ UNCHANGED <<opProject, opEditor, targetPath, opened, uiVars, gceVars, fetchVars>>

\* LaunchThrows swallowing the error and reporting success.
LaunchThrowsMutant(error) ==
    /\ opPc = "launching"
    /\ opLog' = opLog \o
          << ExecResult("launch", FALSE, error),
             ToastCall("Success", <<"Opening in ", opEditor.name>>, <<>>) >>
    /\ opPc' = "done"
    /\ UNCHANGED <<opProject, opEditor, targetPath, opened, uiVars, gceVars, fetchVars>>

\* The launch call throws: the catch block's failure toast.
LaunchThrows(error) ==
    /\ opPc = "launching"
    /\ opLog' = opLog \o
          << ExecResult("launch", FALSE, error),
             ToastCall("Failure", <<"Failed to open project">>, error) >>
    /\ opPc' = "done"
    /\ UNCHANGED <<opProject, opEditor, targetPath, opened, uiVars, gceVars, fetchVars>>

\* The project lists a fetchProjects run over one distro can publish.
PublishedLists ==
    {ScanProjects(FindStdout(root, children), d) :
        root \in RootForms, children \in DirListings, d \in DistroNames} \ {<<>>}

OpenNext ==
    \/ \E storedId \in StoredIds, editors \in GceResults :
            LoadEditorPreference(storedId, editors)
    \/ \E editorId \in EditorIds : SetEditor(editorId)
    \/ \E i \in 1..Len(projects) : OpenNoEditor(projects[i])
    \/ \E i \in 1..Len(projects) : OpenTranslate(projects[i])
    \/ \E i \in 1..Len(projects) : OpenDirect(projects[i])
    \/ \E lineEnd \in LineEnds : TranslateOk(lineEnd)
    \/ \E error \in ErrorValues : TranslateThrows(error)
    \/ LaunchOk
    \/ \E error \in ErrorValues : LaunchThrows(error)

(***************************************************************************)
(* Initial state: the component has mounted; its effect has called         *)
(* fetchProjects (run slot 1 awaits the listing) and loadEditorPreference. *)
(***************************************************************************)

GceInit ==
    /\ gcePc = "idle"
    /\ gceDistro = <<>>
    /\ detectedEditors = <<>>
    /\ whereProbe = NoProbe
    /\ typeProbe = NoProbe
    /\ gceResult = <<>>

UiInit ==
    /\ projects = <<>>
    /\ isLoading = TRUE
    /\ availableEditors = <<>>
    /\ selectedEditorId = Null

FetchInit ==
    /\ runs = [r \in RunSlots |->
                 IF r = 1 THEN [IdleRun EXCEPT !.pc = "listing"] ELSE IdleRun]
    /\ started = 1
    /\ lastDone = NoRun

OpenInit ==
    /\ opPc = "idle"
    /\ opProject = <<>>
    /\ opEditor = <<>>
    /\ targetPath = <<>>
    /\ opLog = <<>>
    /\ opened = 0

Init == GceInit /\ UiInit /\ FetchInit /\ OpenInit

SpecEditors == Init /\ [][GceNext]_vars

SpecFetch == Init /\ [][FetchNext]_vars

\* The launcher, from the moment a fetchProjects run has published a list.
InitOpen ==
    /\ GceInit /\ OpenInit
    /\ projects \in PublishedLists
    /\ isLoading = FALSE
    /\ availableEditors = <<>>
    /\ selectedEditorId = Null
    /\ runs = [r \in RunSlots |-> IdleRun]
    /\ started = 1
    /\ lastDone = [NoRun EXCEPT !.outcome = "published", !.published = 1]

SpecOpen == InitOpen /\ [][OpenNext]_vars

Next == GceNext \/ FetchNext \/ OpenNext

Spec == Init /\ [][Next]_vars

(***************************************************************************)
(* Properties of getConfiguredEditors (checked under SpecEditors)          *)
(***************************************************************************)

Ids(editors) == [i \in 1..Len(editors) |-> editors[i].id]

\* The catalog id of the editor a probed binary belongs to.
IdOfBinary(bin) == IF bin = "code" THEN "vscode" ELSE bin

\* The editors whose binary a probe of the finished call found.
FoundIds == {IdOfBinary(b) : b \in whereProbe.found \cup typeProbe.found}

OneProbeReturned ==
    /\ gcePc = "returned"
    /\ ~whereProbe.threw \/ ~typeProbe.threw

\* C4 as stated: whenever at least one probe does not throw, the returned
\* list is exactly the set of editors whose binary a probe found, also
\* when a probe succeeds and finds nothing.
C4_ExactlyFound ==
    OneProbeReturned => Range(Ids(gceResult)) = FoundIds

\* C4 amended: whenever at least one probe does not throw, the returned
\* list is exactly the set of editors whose binary a probe found if any was
\* found, and the two safe defaults vscode, notepad if none was found.
C4_FoundOrDefaults ==
    OneProbeReturned =>
        IF FoundIds = {} THEN Ids(gceResult) = <<"vscode", "notepad">>
        ELSE Range(Ids(gceResult)) = FoundIds

\* C4 witness: where.exe threw, `type` found only vim, and the call
\* returned just vim.
C4_Witness ==
    /\ gcePc = "returned"
    /\ whereProbe.threw /\ ~typeProbe.threw
    /\ typeProbe.found = {"vim"}
    /\ Ids(gceResult) = <<"vim">>

\* ids is a list of distinct ids in the relative order of `order`.
InOrderOf(ids, order) ==
    \A i, j \in 1..Len(ids) :
        i < j => \E a, b \in 1..Len(order) :
                    a < b /\ order[a] = ids[i] /\ order[b] = ids[j]

\* C5 as stated: the returned editors appear in the relative order of the
\* catalog COMMON_EDITORS and no id appears twice.
C5_CatalogOrder ==
    gcePc = "returned" => InOrderOf(Ids(gceResult), Ids(COMMON_EDITORS))

\* C5 amended: the returned editors appear in the relative order vscode,
\* cursor, antigravity, notepad, vim, nano, micro (the catalog's order but
\* for cursor coming before antigravity) and no id appears twice.
C5_DetectionOrder ==
    gcePc = "returned" =>
        InOrderOf(Ids(gceResult),
                  <<"vscode", "cursor", "antigravity", "notepad", "vim", "nano", "micro">>)

\* C5 witness: a call that found and returned all seven probed editors.
C5_Witness ==
    /\ gcePc = "returned"
    /\ Len(gceResult) = 7
    /\ FoundIds = EditorIds \ {"notepadplusplus"}

\* C6: if both probes throw, the call returns exactly VS Code then Notepad.
C6_SafeDefaults ==
    (gcePc = "returned" /\ whereProbe.threw /\ typeProbe.threw) =>
        /\ Ids(gceResult) = <<"vscode", "notepad">>
        /\ gceResult[1].name = "VS Code"
        /\ gceResult[2].name = "Notepad"

\* C6 witness: a call returned after both probes threw.
C6_Witness ==
    /\ gcePc = "returned"
    /\ whereProbe.threw /\ typeProbe.threw
    /\ Len(gceResult) = 2

(***************************************************************************)
(* Properties of fetchProjects (checked under SpecFetch)                   *)
(***************************************************************************)

DistrosOf(list) == {list[i].distro : i \in 1..Len(list)}

NamesOf(distros) == {distros[i].name : i \in 1..Len(distros)}

\* The Projects of one distro in a list, in the list's order.
ProjectsOfDistro(list, distroName) ==
    LET Mine(p) == p.distro = distroName IN SelectSeq(list, Mine)

\* C1 as stated, for the runs whose listing returned: after the run has
\* completed, every displayed Project has a distro that this run's listing
\* reported Running.
C1_DisplayedAreRunning ==
    lastDone.outcome \in {"published", "noDistros"} =>
        DistrosOf(projects) \subseteq NamesOf(lastDone.distros)

\* The subdirectories of a listing that are not hidden.
NonHidden(children) == {children[i] : i \in {k \in 1..Len(children) : ~IsHidden(children[k])}}

\* C2 as stated: a distro's successful scan yields exactly one Project per
\* non-hidden immediate subdirectory, named after it, and none for the
\* root, in whichever form find printed the root line.
C2_ExactlySubdirectories ==
    \A r \in RunSlots : \A i \in 1..Len(runs[r].scans) :
        runs[r].scans[i].state = "ok" =>
            LET mine == ProjectsOfDistro(runs[r].results, runs[r].distros[i].name)
                subdirs == NonHidden(runs[r].scans[i].children)
            IN  /\ Len(mine) = Cardinality(subdirs)
                /\ {mine[k].name : k \in 1..Len(mine)} = subdirs
                /\ \A k \in 1..Len(mine) : mine[k].path # runs[r].scans[i].root

SomeScanThrew(run) == \E i \in 1..Len(run.scans) : run.scans[i].state = "threw"

\* C3: when scans of a run throw, the failing distros contribute no
\* Project, the run publishes every Project of every distro whose scan
\* succeeded, no failure toast is shown and isLoading ends false.
C3_ScanFailureIsolated ==
    SomeScanThrew(lastDone) =>
        /\ lastDone.outcome = "published"
        /\ lastDone.published = 1
        /\ lastDone.toasts = <<>>
        /\ isLoading = FALSE
        /\ projects = lastDone.results
        /\ \A i \in 1..Len(lastDone.scans) :
              LET name == lastDone.distros[i].name
                  scan == lastDone.scans[i]
              IN  /\ scan.state = "threw" => name \notin DistrosOf(projects)
                  /\ scan.state = "ok" =>
                        Range(ScanProjects(FindStdout(scan.root, scan.children), name))
                            \subseteq Range(projects)

\* C3 witness: a run in which one scan threw and another succeeded has
\* published the Projects of the latter.
C3_Witness ==
    /\ lastDone.outcome = "published"
    /\ SomeScanThrew(lastDone)
    /\ \E i \in 1..Len(lastDone.scans) : lastDone.scans[i].state = "ok"
    /\ Len(projects) = 2

\* C10 as stated, for the runs whose listing returned: the run publishes
\* exactly once, after every scan has settled, and what is published is the
\* union of the successful scans' results.
C10_PublishedOnce ==
    lastDone.outcome \in {"published", "noDistros"} =>
        /\ lastDone.published = 1
        /\ AllSettled(lastDone)
        /\ Range(projects) =
              UNION {Range(ScanProjects(FindStdout(lastDone.scans[i].root,
                                                   lastDone.scans[i].children),
                                        lastDone.distros[i].name)) :
                        i \in {k \in 1..Len(lastDone.scans) :
                                  lastDone.scans[k].state = "ok"}}

(***************************************************************************)
(* Properties of openProject (checked under SpecOpen)                      *)
(***************************************************************************)

LogAt(op) == {i \in 1..Len(opLog) : opLog[i].op = op}

ExecsFor(purpose) == {i \in LogAt("execFile") : opLog[i].purpose = purpose}

ResultsFor(purpose, ok) ==
    {i \in LogAt("result") : opLog[i].purpose = purpose /\ opLog[i].ok = ok}

\* t is s without its leading and trailing whitespace.
IsTrimOf(t, s) ==
    /\ t = <<>> \/ (t[1] \notin WhiteSpace /\ t[Len(t)] \notin WhiteSpace)
    /\ \E i \in 0..(Len(s) - Len(t)) :
          /\ SubSeq(s, i + 1, i + Len(t)) = t
          /\ \A k \in 1..i : s[k] \in WhiteSpace
          /\ \A k \in (i + Len(t) + 1)..Len(s) : s[k] \in WhiteSpace

InvocationHasEditor == opPc # "idle" /\ opEditor # NoEditor

\* C7: for Notepad and Notepad++, wslpath -w runs in the project's distro
\* before getCommand, getCommand gets its trimmed output and never the
\* WSL path, and a failed translation starts no editor; for any other
\* editor no translation runs and getCommand gets the original path.
C7_TranslateBeforeCommand ==
    InvocationHasEditor =>
        IF opEditor.id \in {"notepad", "notepadplusplus"}
        THEN /\ ExecsFor("translate") = {1}
             /\ opLog[1].file = <<"wsl">>
             /\ opLog[1].args = << <<"-d">>, opProject.distro, <<"wslpath">>,
                                   <<"-w">>, opProject.path >>
             /\ \A g \in LogAt("getCommand") :
                   /\ g > 2
                   /\ opLog[2].op = "result" /\ opLog[2].purpose = "translate"
                   /\ opLog[2].ok
                   /\ IsTrimOf(opLog[g].path, opLog[2].value)
                   /\ opLog[g].path # opProject.path
             /\ \A l \in ExecsFor("launch") :
                   /\ \E g \in LogAt("getCommand") : g < l
                   /\ opLog[l].args = << opLog[l - 1].path >>
             /\ ResultsFor("translate", FALSE) # {} =>
                   LogAt("getCommand") = {} /\ ExecsFor("launch") = {}
        ELSE /\ ExecsFor("translate") = {}
             /\ \A g \in LogAt("getCommand") : opLog[g].path = opProject.path

\* C7 witness: Notepad was launched on the translated path.
C7_Witness ==
    /\ opPc = "done"
    /\ opEditor.id = "notepad"
    /\ ExecsFor("launch") # {}
    /\ ResultsFor("launch", TRUE) # {}

\* The log of a finished invocation: at most one launch, one toast, at
\* the end, telling what happened.
OneAttemptOneToast ==
    opPc = "done" =>
        /\ Cardinality(ExecsFor("launch")) <= 1
        /\ LogAt("showToast") = {Len(opLog)}
        /\ LET toast == opLog[Len(opLog)]
           IN  /\ toast.style = "Success" <=> ResultsFor("launch", TRUE) # {}
               /\ toast.style \in {"Success", "Failure"}
               /\ toast.style = "Success" =>
                     toast.title = <<"Opening in ", opEditor.name>>
               /\ toast.style = "Failure" =>
                     IF opEditor = NoEditor
                     THEN /\ toast.title = <<"No editor selected">>
                          /\ LogAt("execFile") = {}
                     ELSE /\ toast.title = <<"Failed to open project">>
                          /\ opLog[Len(opLog) - 1].op = "result"
                          /\ ~opLog[Len(opLog) - 1].ok
                          /\ toast.message = opLog[Len(opLog) - 1].value

\* An invocation finds no editor exactly when the selected id is not the
\* id of an available editor.
NoEditorIffNotAvailable ==
    opened' = opened + 1 =>
        (opEditor' = NoEditor <=>
            ~\E i \in 1..Len(availableEditors) :
                availableEditors[i].id = selectedEditorId)

\* C8: an invocation starts at most one editor process and ends with
\* exactly one notification: success iff the launch returned without
\* error, else 'No editor selected' (the selected id is not among the
\* available editors, nothing is started) or 'Failed to open project'
\* with the error's message.
C8_OneAttemptOneToast ==
    []OneAttemptOneToast /\ [][NoEditorIffNotAvailable]_vars

\* C8 witness: a launch threw and the invocation ended with the failure
\* toast carrying the error.
C8_Witness ==
    /\ opPc = "done"
    /\ ResultsFor("launch", FALSE) # {}
    /\ opLog[Len(opLog)].op = "showToast"
    /\ opLog[Len(opLog)].message = <<"Error: spawn ENOENT">>

\* C9: a terminal editor is launched as cmd.exe with the argument list
\* [/c, start, wsl, -d, distro, <editor>, path], distro and path being
\* elements of their own; every catalog editor with isTerminal goes
\* through this wrapper and every other editor is executed directly.
C9_TerminalWrapper ==
    /\ \A l \in ExecsFor("launch") :
          IF opEditor.isTerminal
          THEN /\ opEditor.id \in {"vim", "nano", "micro"}
               /\ opLog[l].file = <<"cmd.exe">>
               /\ opLog[l].args = << <<"/c">>, <<"start">>, <<"wsl">>, <<"-d">>,
                                     opProject.distro, <<opEditor.id>>,
                                     opProject.path >>
          ELSE /\ opLog[l].file # <<"cmd.exe">>
               /\ opLog[l].args[Len(opLog[l].args)] = targetPath
    /\ \A i \in 1..Len(COMMON_EDITORS) : \A d \in DistroNames :
          LET launch == LaunchCalls(COMMON_EDITORS[i], d, <<"~", "/", "proj1">>)[2]
          IN  COMMON_EDITORS[i].isTerminal <=>
                (/\ launch.file = <<"cmd.exe">>
                 /\ Len(launch.args) = 7
                 /\ launch.args[5] = d
                 /\ launch.args[7] = <<"~", "/", "proj1">>)

\* C9 witness: Vim was launched and the launch returned.
C9_Witness ==
    /\ opPc = "done"
    /\ opEditor.id = "vim"
    /\ ResultsFor("launch", TRUE) # {}

====
